---- MODULE Spec2Model ----
(***************************************************************************)
(* Model of the calculation domain core of is601_module14:                 *)
(*   app/models/calculation.py   factory create(), the four variants'      *)
(*                               get_result(), __repr__                    *)
(*   app/schemas/calculation.py  CalculationBase, CalculationUpdate,       *)
(*                               CalculationResponse                       *)
(*   app/operations/__init__.py  add, subtract, multiply, divide           *)
(* Python values are modelled as tagged records, str values as sequences   *)
(* of one-character strings, numbers by their exact rational value         *)
(* (numerator / positive denominator, in lowest terms).                    *)
(***************************************************************************)
EXTENDS Integers, Sequences, FiniteSets, TLC

VARIABLES calc, last, calls, instances, objects

vars == <<calc, last, calls, instances, objects>>

(***************************************************************************)
(* Bounds of the model.                                                    *)
(***************************************************************************)
\* longest inputs list drawn exhaustively
MaxLen == 3
\* operands of the exhaustive lists range over -MaxOperand..MaxOperand
MaxOperand == 1
\* number of distinct owners (user ids)
NumUsers == 2
\* case variations of a tag: one upper-case letter at positions 1..MaxUpperPos
MaxUpperPos == 2
\* number of get_result() calls followed on one instance
MaxCalls == 2

(***************************************************************************)
(* Python values.                                                          *)
(***************************************************************************)
PyNone == [t |-> "NoneType"]

PyStr(chars) == [t |-> "str", chars |-> chars]

PyList(items) == [t |-> "list", items |-> items]

PyTuple(items) == [t |-> "tuple", items |-> items]

\* a class object
PyClass(name) == [t |-> "type", name |-> name]

\* truth value of an object, as tested by "if not x"
Truthy(v) ==
    CASE v.t = "NoneType"          -> FALSE
      [] v.t = "num"               -> v.n # 0
      [] v.t \in {"list", "tuple"} -> Len(v.items) > 0
      [] v.t = "str"               -> Len(v.chars) > 0
      [] OTHER                     -> TRUE

Abs(i) == IF i < 0 THEN 0 - i ELSE i

RECURSIVE Gcd(_, _)
Gcd(a, b) == IF b = 0 THEN a ELSE Gcd(b, a % b)

\* the number n/d (d # 0) in lowest terms with a positive denominator
PyNum(n, d) ==
    LET g == Gcd(Abs(n), Abs(d))
        s == IF d < 0 THEN 0 - 1 ELSE 1
    IN  [t |-> "num", n |-> (s * n) \div g, d |-> (s * d) \div g]

PyInt(i) == PyNum(i, 1)

\* outcome of a call: a returned value or a raised exception.  The message
\* of an exception is its fixed text followed by the interpolated str arg.
Return(v) == [kind |-> "return", value |-> v, exc |-> "", text |-> "", arg |-> <<>>]

Raise(exc, text, arg) == [kind |-> "raise", value |-> PyNone, exc |-> exc, text |-> text, arg |-> arg]

(***************************************************************************)
(* Arithmetic of Python numbers: a + b, a - b, a * b, a / b, a == b.       *)
(***************************************************************************)
NumAdd(a, b) == PyNum(a.n * b.d + b.n * a.d, a.d * b.d)

NumSub(a, b) == PyNum(a.n * b.d - b.n * a.d, a.d * b.d)

NumMul(a, b) == PyNum(a.n * b.n, a.d * b.d)

\* true division; Python raises ZeroDivisionError on a zero divisor
NumTrueDiv(a, b) ==
    IF b.n = 0
    THEN Raise("ZeroDivisionError", "division by zero", <<>>)
    ELSE Return(PyNum(a.n * b.d, a.d * b.n))

NumEq(a, b) == a.n * b.d = b.n * a.d

(***************************************************************************)
(* str.lower() on the ASCII letters.                                       *)
(***************************************************************************)
UpperLetters ==
    <<"A","B","C","D","E","F","G","H","I","J","K","L","M",
      "N","O","P","Q","R","S","T","U","V","W","X","Y","Z">>

LowerLetters ==
    <<"a","b","c","d","e","f","g","h","i","j","k","l","m",
      "n","o","p","q","r","s","t","u","v","w","x","y","z">>

LowerChar(c) ==
    IF \E i \in 1..Len(UpperLetters) : UpperLetters[i] = c
    THEN LowerLetters[CHOOSE i \in 1..Len(UpperLetters) : UpperLetters[i] = c]
    ELSE c

Lower(s) == PyStr([i \in 1..Len(s.chars) |-> LowerChar(s.chars[i])])

(***************************************************************************)
(* The str constants of the program.                                       *)
(***************************************************************************)
StrAddition == PyStr(<<"a","d","d","i","t","i","o","n">>)

StrSubtraction == PyStr(<<"s","u","b","t","r","a","c","t","i","o","n">>)

StrMultiplication == PyStr(<<"m","u","l","t","i","p","l","i","c","a","t","i","o","n">>)

StrDivision == PyStr(<<"d","i","v","i","s","i","o","n">>)

StrCalculation == PyStr(<<"c","a","l","c","u","l","a","t","i","o","n">>)

MsgUnsupported == "Unsupported calculation type: "

MsgNotList == "Inputs must be a list of numbers."

MsgTooFew == "Inputs must be a list with at least two numbers."

MsgDivZero == "Cannot divide by zero."

(***************************************************************************)
(* The mapped classes.  Constructing an instance binds the keyword         *)
(* arguments, sets the discriminator column type to the polymorphic        *)
(* identity of the class and leaves the other columns (id, result,         *)
(* created_at, updated_at) None; the column defaults are applied when the  *)
(* instance is inserted.                                                   *)
(***************************************************************************)
polymorphic_identity(cls) ==
    CASE cls = "Calculation"    -> StrCalculation
      [] cls = "Addition"       -> StrAddition
      [] cls = "Subtraction"    -> StrSubtraction
      [] cls = "Multiplication" -> StrMultiplication
      [] cls = "Division"       -> StrDivision

NewInstance(cls, user_id, inputs) ==
    [cls |-> cls, id |-> PyNone, user_id |-> user_id,
     type |-> polymorphic_identity(cls), inputs |-> inputs, result |-> PyNone,
     created_at |-> PyNone, updated_at |-> PyNone]

(***************************************************************************)
(* AbstractCalculation.create                                              *)
(***************************************************************************)
\* variant of calculation_classes: the subtraction entry names Addition
calculation_classes_Swapped ==
    { <<StrAddition, PyClass("Addition")>>,
      <<StrSubtraction, PyClass("Addition")>>,
      <<StrMultiplication, PyClass("Multiplication")>>,
      <<StrDivision, PyClass("Division")>> }

\* variant of calculation_classes: an entry for the base class
calculation_classes_WithBase ==
    { <<StrAddition, PyClass("Addition")>>,
      <<StrSubtraction, PyClass("Subtraction")>>,
      <<StrMultiplication, PyClass("Multiplication")>>,
      <<StrDivision, PyClass("Division")>>,
      <<StrCalculation, PyClass("Calculation")>> }

calculation_classes ==
    { <<StrAddition, PyClass("Addition")>>,
      <<StrSubtraction, PyClass("Subtraction")>>,
      <<StrMultiplication, PyClass("Multiplication")>>,
      <<StrDivision, PyClass("Division")>> }

\* dict.get(key): the value stored under key, None when there is none
DictGet(dict, key) ==
    IF \E kv \in dict : kv[1] = key
    THEN (CHOOSE kv \in dict : kv[1] = key)[2]
    ELSE PyNone

\* variant of create: the message shows the normalised tag
create_LowerInMessage(calculation_type, user_id, inputs) ==
    LET calculation_class == DictGet(calculation_classes, Lower(calculation_type))
    IN  IF ~Truthy(calculation_class)
        THEN Raise("ValueError", MsgUnsupported, Lower(calculation_type).chars)
        ELSE Return(NewInstance(calculation_class.name, user_id, inputs))

\* variant of create: the tag is looked up as passed
create_NoLower(calculation_type, user_id, inputs) ==
    LET calculation_class == DictGet(calculation_classes, calculation_type)
    IN  IF ~Truthy(calculation_class)
        THEN Raise("ValueError", MsgUnsupported, calculation_type.chars)
        ELSE Return(NewInstance(calculation_class.name, user_id, inputs))

\* variant of create: the shape of inputs is checked by the factory
create_Validating(calculation_type, user_id, inputs) ==
    LET calculation_class == DictGet(calculation_classes, Lower(calculation_type))
    IN  IF ~Truthy(calculation_class)
        THEN Raise("ValueError", MsgUnsupported, calculation_type.chars)
        ELSE IF inputs.t # "list"
        THEN Raise("ValueError", MsgNotList, <<>>)
        ELSE IF Len(inputs.items) < 2
        THEN Raise("ValueError", MsgTooFew, <<>>)
        ELSE Return(NewInstance(calculation_class.name, user_id, inputs))

create(calculation_type, user_id, inputs) ==
    LET calculation_class == DictGet(calculation_classes, Lower(calculation_type))
    IN  IF ~Truthy(calculation_class)
        THEN Raise("ValueError", MsgUnsupported, calculation_type.chars)
        ELSE Return(NewInstance(calculation_class.name, user_id, inputs))

(***************************************************************************)
(* get_result of the four variants.  The loops of the code are the         *)
(* recursive operators below: i is the position of the next element and    *)
(* result the accumulator.                                                 *)
(***************************************************************************)
RECURSIVE SumLoop(_, _, _)
SumLoop(xs, i, result) ==
    IF i > Len(xs) THEN result ELSE SumLoop(xs, i + 1, NumAdd(result, xs[i]))

\* variant of PySum: the first element is skipped
PySum_SkipFirst(xs) == SumLoop(xs, 2, PyInt(0))

\* the built-in sum(): adds the elements to the start value 0, left to right
PySum(xs) == SumLoop(xs, 1, PyInt(0))

Addition_get_result(self) ==
    IF self.inputs.t # "list"
    THEN Raise("ValueError", MsgNotList, <<>>)
    ELSE IF Len(self.inputs.items) < 2
    THEN Raise("ValueError", MsgTooFew, <<>>)
    ELSE Return(PySum(self.inputs.items))

RECURSIVE SubLoop(_, _, _)
SubLoop(xs, i, result) ==
    IF i > Len(xs) THEN result ELSE SubLoop(xs, i + 1, NumSub(result, xs[i]))

\* variant of Subtraction.get_result: the loop runs over all of inputs
Subtraction_get_result_AllItems(self) ==
    IF self.inputs.t # "list"
    THEN Raise("ValueError", MsgNotList, <<>>)
    ELSE IF Len(self.inputs.items) < 2
    THEN Raise("ValueError", MsgTooFew, <<>>)
    ELSE Return(SubLoop(self.inputs.items, 1, self.inputs.items[1]))

Subtraction_get_result(self) ==
    IF self.inputs.t # "list"
    THEN Raise("ValueError", MsgNotList, <<>>)
    ELSE IF Len(self.inputs.items) < 2
    THEN Raise("ValueError", MsgTooFew, <<>>)
    ELSE Return(SubLoop(self.inputs.items, 2, self.inputs.items[1]))

RECURSIVE MulLoop(_, _, _)
MulLoop(xs, i, result) ==
    IF i > Len(xs) THEN result ELSE MulLoop(xs, i + 1, NumMul(result, xs[i]))

\* variant of Multiplication.get_result: the fold starts from 0
Multiplication_get_result_FromZero(self) ==
    IF self.inputs.t # "list"
    THEN Raise("ValueError", MsgNotList, <<>>)
    ELSE IF Len(self.inputs.items) < 2
    THEN Raise("ValueError", MsgTooFew, <<>>)
    ELSE Return(MulLoop(self.inputs.items, 1, PyInt(0)))

Multiplication_get_result(self) ==
    IF self.inputs.t # "list"
    THEN Raise("ValueError", MsgNotList, <<>>)
    ELSE IF Len(self.inputs.items) < 2
    THEN Raise("ValueError", MsgTooFew, <<>>)
    ELSE Return(MulLoop(self.inputs.items, 1, PyInt(1)))

\* variant of the division loop: the divisor is tested after the division
RECURSIVE DivLoop_CheckAfter(_, _, _)
DivLoop_CheckAfter(xs, i, result) ==
    IF i > Len(xs)
    THEN Return(result)
    ELSE LET q == NumTrueDiv(result, xs[i])
         IN  IF q.kind = "raise" THEN q
             ELSE IF NumEq(xs[i], PyInt(0))
             THEN Raise("ValueError", MsgDivZero, <<>>)
             ELSE DivLoop_CheckAfter(xs, i + 1, q.value)

RECURSIVE DivLoop(_, _, _)
DivLoop(xs, i, result) ==
    IF i > Len(xs)
    THEN Return(result)
    ELSE IF NumEq(xs[i], PyInt(0))
    THEN Raise("ValueError", MsgDivZero, <<>>)
    ELSE LET q == NumTrueDiv(result, xs[i])
         IN  IF q.kind = "raise" THEN q ELSE DivLoop(xs, i + 1, q.value)

\* variant of Division.get_result: the loop runs over all of inputs
Division_get_result_AllItems(self) ==
    IF self.inputs.t # "list"
    THEN Raise("ValueError", MsgNotList, <<>>)
    ELSE IF Len(self.inputs.items) < 2
    THEN Raise("ValueError", MsgTooFew, <<>>)
    ELSE DivLoop(self.inputs.items, 1, self.inputs.items[1])

\* variant of Division.get_result: no check of the number of operands
Division_get_result_NoLen(self) ==
    IF self.inputs.t # "list"
    THEN Raise("ValueError", MsgNotList, <<>>)
    ELSE IF Len(self.inputs.items) < 1
    THEN Raise("ValueError", MsgTooFew, <<>>)
    ELSE DivLoop(self.inputs.items, 2, self.inputs.items[1])

\* variant of Division.get_result: a stored result is returned as a cache
Division_get_result_Cached(self) ==
    IF self.result # PyNone
    THEN Return(self.result)
    ELSE IF self.inputs.t # "list"
    THEN Raise("ValueError", MsgNotList, <<>>)
    ELSE IF Len(self.inputs.items) < 2
    THEN Raise("ValueError", MsgTooFew, <<>>)
    ELSE DivLoop(self.inputs.items, 2, self.inputs.items[1])

Division_get_result(self) ==
    IF self.inputs.t # "list"
    THEN Raise("ValueError", MsgNotList, <<>>)
    ELSE IF Len(self.inputs.items) < 2
    THEN Raise("ValueError", MsgTooFew, <<>>)
    ELSE DivLoop(self.inputs.items, 2, self.inputs.items[1])

\* variant of AbstractCalculation.get_result: an empty body
AbstractCalculation_get_result_Pass(self) == Return(PyNone)

AbstractCalculation_get_result(self) == Raise("NotImplementedError", "", <<>>)

\* method resolution of self.get_result()
get_result(self) ==
    CASE self.cls = "Addition"       -> Addition_get_result(self)
      [] self.cls = "Subtraction"    -> Subtraction_get_result(self)
      [] self.cls = "Multiplication" -> Multiplication_get_result(self)
      [] self.cls = "Division"       -> Division_get_result(self)
      [] OTHER                       -> AbstractCalculation_get_result(self)

(***************************************************************************)
(* AbstractCalculation.__repr__: an f-string over self.type and            *)
(* self.inputs.  A replacement field is formatted by str(); str() of a     *)
(* list or a tuple is made of the repr() of its items.  A number whose     *)
(* value is an integer is the int the caller passed; any other number is a *)
(* float, whose repr is its shortest decimal.                              *)
(***************************************************************************)
DigitChars == <<"0", "1", "2", "3", "4", "5", "6", "7", "8", "9">>

RECURSIVE NatRepr(_)
NatRepr(n) ==
    IF n < 10 THEN <<DigitChars[n + 1]>> ELSE NatRepr(n \div 10) \o <<DigitChars[(n % 10) + 1]>>

IntRepr(i) == IF i < 0 THEN <<"-">> \o NatRepr(0 - i) ELSE NatRepr(i)

RECURSIVE Pow10(_)
Pow10(k) == IF k = 0 THEN 1 ELSE 10 * Pow10(k - 1)

\* the digits of f after the point, f < 10^k, without leading zeros lost
RECURSIVE FractionDigits(_, _)
FractionDigits(f, k) ==
    IF k = 0 THEN <<>> ELSE FractionDigits(f \div 10, k - 1) \o <<DigitChars[(f % 10) + 1]>>

\* repr of the float n/d, d > 1 a divisor of a power of ten
FloatRepr(n, d) ==
    LET k == CHOOSE j \in 1..9 : Pow10(j) % d = 0 /\ \A h \in 1..(j - 1) : Pow10(h) % d # 0
        m == Abs(n) * (Pow10(k) \div d)
    IN  (IF n < 0 THEN <<"-">> ELSE <<>>) \o NatRepr(m \div Pow10(k)) \o <<".">>
            \o FractionDigits(m % Pow10(k), k)

StrRepr(v) == <<"'">> \o v.chars \o <<"'">>

\* repr() of an object that is not a container
ItemRepr(v) ==
    CASE v.t = "num"      -> IF v.d = 1 THEN IntRepr(v.n) ELSE FloatRepr(v.n, v.d)
      [] v.t = "NoneType" -> <<"N", "o", "n", "e">>
      [] v.t = "str"      -> StrRepr(v)

RECURSIVE ItemsRepr(_, _)
ItemsRepr(items, i) ==
    IF i > Len(items) THEN <<>>
    ELSE (IF i > 1 THEN <<",", " ">> ELSE <<>>) \o ItemRepr(items[i]) \o ItemsRepr(items, i + 1)

PyRepr(v) ==
    CASE v.t = "list"  -> <<"[">> \o ItemsRepr(v.items, 1) \o <<"]">>
      [] v.t = "tuple" -> <<"(">> \o ItemsRepr(v.items, 1)
                              \o (IF Len(v.items) = 1 THEN <<",">> ELSE <<>>) \o <<")">>
      [] OTHER         -> ItemRepr(v)

\* str(v), which format(v, "") returns for these types
PyFormat(v) == IF v.t = "str" THEN v.chars ELSE PyRepr(v)

\* variant of __repr__ that formats the fields with !r
AbstractCalculation_repr_Quoted(self) ==
    Return(PyStr(<<"<","C","a","l","c","u","l","a","t","i","o","n","(","t","y","p","e","=">>
                 \o PyRepr(self.type)
                 \o <<",", " ", "i","n","p","u","t","s","=">>
                 \o PyRepr(self.inputs) \o <<")", ">">>))

AbstractCalculation_repr(self) ==
    Return(PyStr(<<"<","C","a","l","c","u","l","a","t","i","o","n","(","t","y","p","e","=">>
                 \o PyFormat(self.type)
                 \o <<",", " ", "i","n","p","u","t","s","=">>
                 \o PyFormat(self.inputs) \o <<")", ">">>))

(***************************************************************************)
(* The arguments the callers pass: tag strings in several spellings,       *)
(* owners, and inputs values (lists of numbers and objects of other types).*)
(***************************************************************************)
UpperChar(c) ==
    IF \E i \in 1..Len(LowerLetters) : LowerLetters[i] = c
    THEN UpperLetters[CHOOSE i \in 1..Len(LowerLetters) : LowerLetters[i] = c]
    ELSE c

Upper(s) == PyStr([i \in 1..Len(s.chars) |-> UpperChar(s.chars[i])])

UpperAt(s, k) ==
    PyStr([i \in 1..Len(s.chars) |-> IF i = k THEN UpperChar(s.chars[i]) ELSE s.chars[i]])

CaseVariants(s) ==
    {s, Upper(s)} \cup
    {UpperAt(s, k) : k \in {j \in 1..MaxUpperPos : j <= Len(s.chars)}}

SupportedTags == {StrAddition, StrSubtraction, StrMultiplication, StrDivision}

StrPower == PyStr(<<"p","o","w","e","r">>)

StrEmpty == PyStr(<<>>)

\* tags outside the fixed set: unknown names, the empty string, the base
\* identity, a prefix and a padded spelling of a known tag
OtherTags ==
    {StrPower, StrEmpty, StrCalculation,
     PyStr(<<"a","d","d">>),
     PyStr(<<"a","d","d","i","t","i","o","n"," ">>),
     PyStr(<<"d","i","v","i","s","i","o","n","s">>)}

TagStrings ==
    UNION {CaseVariants(s) : s \in SupportedTags} \cup OtherTags \cup {Upper(StrPower), Upper(StrCalculation)}

UserIds == 1..NumUsers

Operands == (0 - MaxOperand)..MaxOperand

IntList(xs) == PyList([i \in 1..Len(xs) |-> PyInt(xs[i])])

BoundedLists == {IntList(xs) : xs \in UNION {[1..k -> Operands] : k \in 0..MaxLen}}

\* the inputs of the repository's tests and of the documented examples
ExampleLists ==
    {IntList(<<1, 2, 3>>), IntList(<<15, 4, 2>>), IntList(<<5, 2, 3>>),
     IntList(<<60, 3, 4>>), IntList(<<25, 0, 2>>), IntList(<<48, 2, 4>>),
     IntList(<<42>>), IntList(<<99>>), IntList(<<0, 3, 4>>), IntList(<<10, 0>>),
     IntList(<<7, 8, 9>>), IntList(<<1, 2>>), IntList(<<12, 7>>), IntList(<<2, 6, 2>>),
     PyList(<<PyInt(7), PyInt(8), PyNum(5, 2)>>),
     PyList(<<PyInt(10), PyNum(1, 2)>>)}

\* objects that are not lists
NonLists ==
    {PyInt(42), PyNone, PyTuple(<<PyInt(1), PyInt(2)>>), PyTuple(<<PyInt(1)>>), StrPower}

InputValues == BoundedLists \cup ExampleLists \cup NonLists

(***************************************************************************)
(* app/operations: the two-argument primitives.                            *)
(***************************************************************************)
add(a, b) == Return(NumAdd(a, b))

\* variant of subtract: the operands are exchanged
subtract_Exchanged(a, b) == Return(NumSub(b, a))

subtract(a, b) == Return(NumSub(a, b))

multiply(a, b) == Return(NumMul(a, b))

\* variant of divide: no test of the divisor
divide_NoCheck(a, b) == NumTrueDiv(a, b)

divide(a, b) ==
    IF NumEq(b, PyInt(0))
    THEN Raise("ValueError", MsgDivZero, <<>>)
    ELSE NumTrueDiv(a, b)

Primitive(name, a, b) ==
    CASE name = "add"      -> add(a, b)
      [] name = "subtract" -> subtract(a, b)
      [] name = "multiply" -> multiply(a, b)
      [] name = "divide"   -> divide(a, b)

(***************************************************************************)
(* app/schemas/calculation.py: the validation schemas.  A payload is a     *)
(* record of field values, Missing standing for an absent field.  A        *)
(* validator returns the validated value or raises; the errors of the      *)
(* fields are collected into one ValidationError, whose argument is the    *)
(* list of line errors.                                                    *)
(***************************************************************************)
Missing == [t |-> "missing"]

PyUUID(k) == [t |-> "UUID", v |-> k]

PyDatetime(k) == [t |-> "datetime", v |-> k]

MsgTypeOneOf == "Type must be one of: "

MsgValidList == "Input should be a valid list"

MsgTooShort == "List should have at least 2 items after validation"

MsgAtLeastTwo == "At least two numbers are required for calculation"

MsgNoDivZero == "Cannot divide by zero"

MsgRequired == "Field required"

MsgNotNumber == "Input should be a valid number"

MsgNotUUID == "UUID input should be a string, bytes or UUID object"

MsgNotDatetime == "Input should be a valid datetime"

\* variant of CalculationType: the enumeration lacks a member
CalculationType_NoMultiplication == {StrAddition, StrSubtraction, StrDivision}

\* the values of the enumeration CalculationType
CalculationType == {StrAddition, StrSubtraction, StrMultiplication, StrDivision}

\* code-point order of the characters that occur in the tags
CharOrder == <<" ", ",">> \o UpperLetters \o LowerLetters

CharCode(c) == CHOOSE i \in 1..Len(CharOrder) : CharOrder[i] = c

\* a < b for str values (lexicographic)
RECURSIVE CharsLess(_, _)
CharsLess(a, b) ==
    IF b = <<>> THEN FALSE
    ELSE IF a = <<>> THEN TRUE
    ELSE IF Head(a) = Head(b) THEN CharsLess(Tail(a), Tail(b))
    ELSE CharCode(Head(a)) < CharCode(Head(b))

\* sorted(strs): the list of the str values of a set, ascending
RECURSIVE Sorted(_)
Sorted(strs) ==
    IF strs = {} THEN <<>>
    ELSE LET least == CHOOSE x \in strs : \A y \in strs \ {x} : CharsLess(x.chars, y.chars)
         IN  <<least>> \o Sorted(strs \ {least})

\* sep.join(list)
RECURSIVE Join(_, _)
Join(sep, list) ==
    IF list = <<>> THEN <<>>
    ELSE IF Len(list) = 1 THEN list[1].chars
    ELSE list[1].chars \o sep \o Join(sep, Tail(list))

LineError(loc, text, arg) == [loc |-> loc, text |-> text, arg |-> arg]

ErrorOf(loc, outcome) ==
    IF outcome.kind = "raise" THEN <<LineError(loc, outcome.text, outcome.arg)>> ELSE <<>>

\* variant of validate_type: the value is returned as passed
validate_type_ReturnsRaw(v) ==
    LET allowed == CalculationType
    IN  IF v.t # "str" \/ Lower(v) \notin allowed
        THEN Raise("ValueError", MsgTypeOneOf, Join(<<",", " ">>, Sorted(allowed)))
        ELSE Return(v)

\* CalculationBase.validate_type (mode before)
validate_type(v) ==
    LET allowed == CalculationType
    IN  IF v.t # "str" \/ Lower(v) \notin allowed
        THEN Raise("ValueError", MsgTypeOneOf, Join(<<",", " ">>, Sorted(allowed)))
        ELSE Return(Lower(v))

\* variant of check_inputs_is_list: every value is passed on
check_inputs_is_list_NoCheck(v) == Return(v)

\* CalculationBase.check_inputs_is_list (mode before)
check_inputs_is_list(v) ==
    IF v.t # "list"
    THEN Raise("ValueError", MsgValidList, <<>>)
    ELSE Return(v)

\* validation of a value against the enumeration CalculationType
EnumField(v) ==
    IF v.t = "str" /\ v \in CalculationType
    THEN Return(v)
    ELSE Raise("ValueError", "Input should be 'addition', 'subtraction', 'multiplication' or 'division'", <<>>)

\* validation of a value against List[float] with min_items: a list (or,
\* without a before-validator, a tuple) of numbers of at least that length
ListFloatField(v, min_items) ==
    IF v.t \notin {"list", "tuple"}
    THEN Raise("ValueError", MsgValidList, <<>>)
    ELSE IF Len(v.items) < min_items
    THEN Raise("ValueError", MsgTooShort, <<>>)
    ELSE Return(PyList(v.items))

\* the field type of CalculationBase
CalculationBase_type(data) ==
    IF data.type = Missing
    THEN Raise("ValueError", MsgRequired, <<>>)
    ELSE LET before == validate_type(data.type)
         IN  IF before.kind = "raise" THEN before ELSE EnumField(before.value)

\* the field inputs of CalculationBase
CalculationBase_inputs(data) ==
    IF data.inputs = Missing
    THEN Raise("ValueError", MsgRequired, <<>>)
    ELSE LET before == check_inputs_is_list(data.inputs)
         IN  IF before.kind = "raise" THEN before ELSE ListFloatField(before.value, 2)

\* variant of validate_inputs: the numerator is tested as well
CalculationBase_validate_inputs_AnyZero(self) ==
    IF Len(self.inputs.items) < 2
    THEN Raise("ValueError", MsgAtLeastTwo, <<>>)
    ELSE IF self.type = StrDivision
            /\ \E i \in 1..Len(self.inputs.items) : NumEq(self.inputs.items[i], PyInt(0))
    THEN Raise("ValueError", MsgNoDivZero, <<>>)
    ELSE Return(self)

\* variant of validate_inputs: only the length is tested
CalculationBase_validate_inputs_LengthOnly(self) ==
    IF Len(self.inputs.items) < 2
    THEN Raise("ValueError", MsgAtLeastTwo, <<>>)
    ELSE Return(self)

\* CalculationBase.validate_inputs (mode after)
CalculationBase_validate_inputs(self) ==
    IF Len(self.inputs.items) < 2
    THEN Raise("ValueError", MsgAtLeastTwo, <<>>)
    ELSE IF self.type = StrDivision
            /\ \E i \in 2..Len(self.inputs.items) : NumEq(self.inputs.items[i], PyInt(0))
    THEN Raise("ValueError", MsgNoDivZero, <<>>)
    ELSE Return(self)

\* CalculationBase(**data)
CalculationBase(data) ==
    LET type == CalculationBase_type(data)
        inputs == CalculationBase_inputs(data)
        errors == ErrorOf("type", type) \o ErrorOf("inputs", inputs)
    IN  IF errors # <<>>
        THEN Raise("ValidationError", "", errors)
        ELSE LET self == [t |-> "CalculationBase", type |-> type.value, inputs |-> inputs.value]
                 after == CalculationBase_validate_inputs(self)
             IN  IF after.kind = "raise"
                 THEN Raise("ValidationError", "", ErrorOf("", after))
                 ELSE after

\* variant of the field inputs of CalculationUpdate: the field is required
CalculationUpdate_inputs_Required(data) ==
    IF data.inputs = Missing
    THEN Raise("ValueError", MsgRequired, <<>>)
    ELSE IF data.inputs = PyNone
    THEN Return(PyNone)
    ELSE ListFloatField(data.inputs, 2)

\* the field inputs of CalculationUpdate: optional, None by default
CalculationUpdate_inputs(data) ==
    IF data.inputs = Missing
    THEN Return(PyNone)
    ELSE IF data.inputs = PyNone
    THEN Return(PyNone)
    ELSE ListFloatField(data.inputs, 2)

\* CalculationUpdate.validate_inputs (mode after)
CalculationUpdate_validate_inputs(self) ==
    IF self.inputs # PyNone /\ Len(self.inputs.items) < 2
    THEN Raise("ValueError", MsgAtLeastTwo, <<>>)
    ELSE Return(self)

\* variant of CalculationUpdate: the form is built without validation
\* (model_construct), the payload taken as given
CalculationUpdate_Unvalidated(data) ==
    Return([t |-> "CalculationUpdate",
            inputs |-> IF data.inputs = Missing THEN PyNone ELSE data.inputs])

\* CalculationUpdate(**data); fields other than inputs are ignored
CalculationUpdate(data) ==
    LET inputs == CalculationUpdate_inputs(data)
        errors == ErrorOf("inputs", inputs)
    IN  IF errors # <<>>
        THEN Raise("ValidationError", "", errors)
        ELSE LET self == [t |-> "CalculationUpdate", inputs |-> inputs.value]
                 after == CalculationUpdate_validate_inputs(self)
             IN  IF after.kind = "raise"
                 THEN Raise("ValidationError", "", ErrorOf("", after))
                 ELSE after

\* validation of a value against float, UUID and datetime
FloatField(v) ==
    IF v.t = "num" THEN Return(v) ELSE Raise("ValueError", MsgNotNumber, <<>>)

UUIDField(v) ==
    IF v.t = "UUID" THEN Return(v) ELSE Raise("ValueError", MsgNotUUID, <<>>)

DatetimeField(v) ==
    IF v.t = "datetime" THEN Return(v) ELSE Raise("ValueError", MsgNotDatetime, <<>>)

\* variant of the field result of CalculationResponse: None is accepted
CalculationResponse_result_Optional(obj) ==
    IF obj.result = PyNone THEN Return(PyNone) ELSE FloatField(obj.result)

\* the field result of CalculationResponse: required float
CalculationResponse_result(obj) == FloatField(obj.result)

\* CalculationResponse.model_validate(obj) with from_attributes: the fields
\* are read from the attributes of a mapped instance (whose user_id is the
\* UUID it was constructed with); type and inputs are validated as in
\* CalculationBase, whose after-validator is inherited
CalculationResponse(obj) ==
    LET data == [type |-> obj.type, inputs |-> obj.inputs]
        type == CalculationBase_type(data)
        inputs == CalculationBase_inputs(data)
        id == UUIDField(obj.id)
        created_at == DatetimeField(obj.created_at)
        updated_at == DatetimeField(obj.updated_at)
        result == CalculationResponse_result(obj)
        errors == ErrorOf("type", type) \o ErrorOf("inputs", inputs) \o
                  ErrorOf("id", id) \o ErrorOf("created_at", created_at) \o
                  ErrorOf("updated_at", updated_at) \o ErrorOf("result", result)
    IN  IF errors # <<>>
        THEN Raise("ValidationError", "", errors)
        ELSE LET self == [t |-> "CalculationResponse", type |-> type.value,
                          inputs |-> inputs.value, id |-> id.value,
                          user_id |-> obj.user_id, created_at |-> created_at.value,
                          updated_at |-> updated_at.value, result |-> result.value]
                 after == CalculationBase_validate_inputs(self)
             IN  IF after.kind = "raise"
                 THEN Raise("ValidationError", "", ErrorOf("", after))
                 ELSE after

(***************************************************************************)
(* State: calc is the instance the caller holds (None before it is         *)
(* created), last records the most recent call, its arguments and outcome. *)
(* An exception raised by create propagates to the caller, which makes no  *)
(* further call.  calls counts the get_result() calls made on calc.        *)
(* instances and objects belong to the part on several instances: the      *)
(* instance each holder has, and the heap of the list objects they bind.   *)
(***************************************************************************)
\* the callers that hold an instance each
Holders == {"a", "b"}

NoCall == [op |-> "none", calculation_type |-> PyNone, user_id |-> 0,
           inputs |-> PyNone, outcome |-> Return(PyNone)]

Init ==
    /\ calc = PyNone
    /\ last = NoCall
    /\ calls = 0
    /\ instances = [k \in Holders |-> PyNone]
    /\ objects = <<>>

\* calc = Calculation.create(calculation_type, user_id, inputs)
Create ==
    /\ calc = PyNone
    /\ last.op = "none"
    /\ \E calculation_type \in TagStrings, user_id \in UserIds, inputs \in InputValues :
          LET outcome == create(calculation_type, user_id, inputs)
          IN  /\ calc' = IF outcome.kind = "return" THEN outcome.value ELSE calc
              /\ last' = [op |-> "create", calculation_type |-> calculation_type,
                          user_id |-> user_id, inputs |-> inputs, outcome |-> outcome]
    /\ UNCHANGED calls
    /\ UNCHANGED <<instances, objects>>

\* variant of get_result(): the operands are taken off the stored list
GetResult_Consuming ==
    /\ calc # PyNone
    /\ calls < MaxCalls
    /\ calc' = IF calc.inputs.t = "list" /\ Len(calc.inputs.items) > 0
               THEN [calc EXCEPT !.inputs = PyList(Tail(calc.inputs.items))]
               ELSE calc
    /\ last' = [op |-> "get_result", calculation_type |-> PyNone, user_id |-> 0,
                inputs |-> PyNone, outcome |-> get_result(calc)]
    /\ calls' = calls + 1
    /\ UNCHANGED <<instances, objects>>

\* variant of get_result(): the value computed is kept in self.result
GetResult_Storing ==
    /\ calc # PyNone
    /\ calls < MaxCalls
    /\ LET outcome == get_result(calc)
       IN  /\ calc' = IF outcome.kind = "return"
                      THEN [calc EXCEPT !.result = outcome.value]
                      ELSE calc
           /\ last' = [op |-> "get_result", calculation_type |-> PyNone, user_id |-> 0,
                       inputs |-> PyNone, outcome |-> outcome]
    /\ calls' = calls + 1
    /\ UNCHANGED <<instances, objects>>

\* calc.get_result()
GetResult ==
    /\ calc # PyNone
    /\ calls < MaxCalls
    /\ calc' = calc
    /\ last' = [op |-> "get_result", calculation_type |-> PyNone, user_id |-> 0,
                inputs |-> PyNone, outcome |-> get_result(calc)]
    /\ calls' = calls + 1
    /\ UNCHANGED <<instances, objects>>

\* values of the field type that are not tags: other objects, no field
OtherTypeValues == {PyInt(42), PyNone, Missing}

\* CalculationBase(type=..., inputs=...): the validation gate
Validate ==
    /\ last.op = "none"
    /\ \E type \in TagStrings \cup OtherTypeValues, inputs \in InputValues \cup {Missing} :
          last' = [op |-> "validate", calculation_type |-> type, user_id |-> 0,
                   inputs |-> inputs,
                   outcome |-> CalculationBase([type |-> type, inputs |-> inputs])]
    /\ UNCHANGED <<calc, calls>>
    /\ UNCHANGED <<instances, objects>>

\* CalculationUpdate(inputs=...), the payload possibly carrying a type too
ValidateUpdate ==
    /\ last.op = "none"
    /\ \E type \in {Missing, StrDivision}, inputs \in InputValues \cup {Missing} :
          last' = [op |-> "validate_update", calculation_type |-> type, user_id |-> 0,
                   inputs |-> inputs,
                   outcome |-> CalculationUpdate([type |-> type, inputs |-> inputs])]
    /\ UNCHANGED <<calc, calls>>
    /\ UNCHANGED <<instances, objects>>

MappedClasses == {"Calculation", "Addition", "Subtraction", "Multiplication", "Division"}

\* an instance of a subclass of AbstractCalculation that is not mapped and
\* overrides nothing; inputs is an attribute of the class
DummyInstance(inputs) ==
    [cls |-> "Dummy", id |-> PyNone, user_id |-> 0, type |-> PyNone, inputs |-> inputs,
     result |-> PyNone, created_at |-> PyNone, updated_at |-> PyNone]

\* calc = cls(user_id=..., inputs=...), the class called directly
Construct ==
    /\ calc = PyNone
    /\ last.op = "none"
    /\ \E cls \in MappedClasses \cup {"Dummy"}, user_id \in UserIds, inputs \in InputValues :
          LET self == IF cls = "Dummy"
                      THEN DummyInstance(inputs)
                      ELSE NewInstance(cls, user_id, inputs)
          IN  /\ calc' = self
              /\ last' = [op |-> "construct", calculation_type |-> PyNone,
                          user_id |-> self.user_id, inputs |-> inputs,
                          outcome |-> Return(self)]
    /\ UNCHANGED calls
    /\ UNCHANGED <<instances, objects>>

\* the operands of the primitives: the integers of the lists and the values
\* of the repository's tests
PrimitiveOperands ==
    {PyInt(i) : i \in Operands} \cup
    {PyInt(2), PyInt(3), PyInt(4), PyInt(5), PyInt(6), PyNum(5, 2), PyNum(7, 2), PyNum(11, 2),
     PyNum(15, 2)}

\* add(a, b), subtract(a, b), multiply(a, b), divide(a, b)
Operate ==
    /\ last.op = "none"
    /\ \E name \in {"add", "subtract", "multiply", "divide"},
          a \in PrimitiveOperands, b \in PrimitiveOperands :
          last' = [op |-> name, calculation_type |-> PyNone, user_id |-> 0,
                   inputs |-> PyList(<<a, b>>), outcome |-> Primitive(name, a, b)]
    /\ UNCHANGED <<calc, calls>>
    /\ UNCHANGED <<instances, objects>>

Called(op, outcome) ==
    [op |-> op, calculation_type |-> PyNone, user_id |-> 0, inputs |-> PyNone,
     outcome |-> outcome]

\* calc.result = calc.get_result(), done by the owner of the instance
StoreResult ==
    /\ calc # PyNone
    /\ LET outcome == get_result(calc)
       IN  /\ calc' = IF outcome.kind = "return"
                      THEN [calc EXCEPT !.result = outcome.value]
                      ELSE calc
           /\ last' = Called("store_result", outcome)
    /\ UNCHANGED calls
    /\ UNCHANGED <<instances, objects>>

\* the instance is inserted: the defaults of id, created_at and updated_at
\* are applied
Persist ==
    /\ calc # PyNone
    /\ calc.cls \in MappedClasses
    /\ calc.id = PyNone
    /\ calc' = [calc EXCEPT !.id = PyUUID(1), !.created_at = PyDatetime(1),
                            !.updated_at = PyDatetime(1)]
    /\ last' = Called("persist", Return(PyNone))
    /\ UNCHANGED calls
    /\ UNCHANGED <<instances, objects>>

\* CalculationResponse.model_validate(calc)
BuildResponse ==
    /\ calc # PyNone
    /\ calc.cls \in MappedClasses
    /\ last' = Called("response", CalculationResponse(calc))
    /\ UNCHANGED <<calc, calls>>
    /\ UNCHANGED <<instances, objects>>

\* repr(calc) of the instance just built, whose numbers are those the
\* caller passed
Repr ==
    /\ calc # PyNone
    /\ calc.cls \in MappedClasses
    /\ last.op \in {"create", "construct"}
    /\ last' = Called("repr", AbstractCalculation_repr(calc))
    /\ UNCHANGED <<calc, calls>>
    /\ UNCHANGED <<instances, objects>>

Next ==
    \/ Create \/ GetResult \/ Validate \/ ValidateUpdate
    \/ StoreResult \/ Persist \/ BuildResponse
    \/ Construct \/ Operate \/ Repr

Spec == Init /\ [][Next]_vars

(***************************************************************************)
(* The life of a stored entity.  A request passes the validation gate and  *)
(* the factory builds the entity from the validated data (Submit), or a    *)
(* caller hands the request to the factory directly (Bypass); the entity   *)
(* is inserted (Persist); the owner stores computed results (StoreResult)  *)
(* and applies the input updates the update form accepts (UpdateInputs).   *)
(* The owner plays no part in these steps: the requests are of one owner.  *)
(***************************************************************************)
MaxRequestLen == 2

MaxUpdates == 1

\* the lists of a request: of a zero and a non-zero operand up to a
\* length, and inputs of the repository's tests and documented examples
RequestLists ==
    {IntList(xs) : xs \in UNION {[1..k -> {0, 1}] : k \in 0..MaxRequestLen}} \cup
    {IntList(<<15, 4, 2>>), IntList(<<60, 3, 4>>), IntList(<<25, 0, 2>>), IntList(<<10, 0>>),
     IntList(<<42>>)}

RequestInputs == RequestLists \cup NonLists

\* the request is validated, then create(type, user_id, inputs) is called
\* with the validated data
Submit ==
    /\ calc = PyNone
    /\ last.op = "none"
    /\ \E type \in TagStrings \cup OtherTypeValues, user_id \in {1},
          inputs \in RequestInputs \cup {Missing} :
          LET gate == CalculationBase([type |-> type, inputs |-> inputs])
              outcome == IF gate.kind = "raise" THEN gate
                         ELSE create(gate.value.type, user_id, gate.value.inputs)
          IN  /\ calc' = IF outcome.kind = "return" THEN outcome.value ELSE calc
              /\ last' = [op |-> "submit", calculation_type |-> type, user_id |-> user_id,
                          inputs |-> inputs, outcome |-> outcome]
    /\ UNCHANGED calls
    /\ UNCHANGED <<instances, objects>>

\* create(type, user_id, inputs) called with the data of a request that
\* went through no validation
Bypass ==
    /\ calc = PyNone
    /\ last.op = "none"
    /\ \E calculation_type \in SupportedTags \cup {Upper(StrDivision), StrPower, StrCalculation},
          user_id \in {1}, inputs \in RequestInputs :
          LET outcome == create(calculation_type, user_id, inputs)
          IN  /\ calc' = IF outcome.kind = "return" THEN outcome.value ELSE calc
              /\ last' = [op |-> "create", calculation_type |-> calculation_type,
                          user_id |-> user_id, inputs |-> inputs, outcome |-> outcome]
    /\ UNCHANGED calls
    /\ UNCHANGED <<instances, objects>>

\* the update form validates the payload; inputs that are given replace the
\* inputs of the stored entity, whose updated_at is refreshed by the update
UpdateInputs ==
    /\ calc # PyNone
    /\ calc.id # PyNone
    /\ \E inputs \in RequestInputs \cup {Missing} :
          LET form == CalculationUpdate([type |-> Missing, inputs |-> inputs])
              given == form.kind = "return" /\ form.value.inputs # PyNone
          IN  /\ given => calc.updated_at.v <= MaxUpdates
              /\ calc' = IF given
                         THEN [calc EXCEPT !.inputs = form.value.inputs,
                                           !.updated_at = PyDatetime(calc.updated_at.v + 1)]
                         ELSE calc
              /\ last' = [op |-> "update", calculation_type |-> PyNone, user_id |-> 0,
                          inputs |-> inputs, outcome |-> form]
    /\ UNCHANGED calls
    /\ UNCHANGED <<instances, objects>>

LifecycleNext ==
    \/ Submit \/ Bypass \/ Persist \/ UpdateInputs
    \/ GetResult \/ StoreResult

Lifecycle == Init /\ [][LifecycleNext]_vars

\* the entities that requests accepted by the gate create
GatedNext ==
    \/ Submit \/ Persist \/ UpdateInputs
    \/ GetResult \/ StoreResult

Gated == Init /\ [][GatedNext]_vars

(***************************************************************************)
(* Several instances.  A list is an object: create binds the list object   *)
(* it is given to the instance without copying it, so two instances built  *)
(* from the same list share one object.  objects is the heap of the list   *)
(* objects, an instance of this part holds the address of its inputs.      *)
(***************************************************************************)
MaxObjects == 3

Ref(a) == [t |-> "ref", at |-> a]

\* the instance as its methods read it: self.inputs is the object bound
Deref(objs, self) == [self EXCEPT !.inputs = objs[self.inputs.at]]

\* the lists of this part: a valid one, one with a zero divisor, a short one
InstanceLists == {IntList(<<4, 2>>), IntList(<<4, 0>>), IntList(<<42>>)}

\* the tags of this part: a variant that is order-insensitive, the variant
\* with the zero test, an unknown tag
InstanceTags == {StrAddition, StrDivision, StrPower}

Acted(op, k, outcome) == [op |-> op, self |-> k, outcome |-> outcome]

\* instances[k] = Calculation.create(tag, user_id, xs), xs a new list or a
\* list another caller passed to create as well
CreateFor(k) ==
    /\ instances[k] = PyNone
    /\ \E calculation_type \in InstanceTags,
          a \in 1..(Len(objects) + 1), v \in InstanceLists :
          /\ a <= MaxObjects
          /\ a <= Len(objects) => v = objects[a]
          /\ LET outcome == create(calculation_type, 1, Ref(a))
             IN  /\ objects' = IF a > Len(objects) THEN Append(objects, v) ELSE objects
                 /\ instances' = [instances EXCEPT
                                    ![k] = IF outcome.kind = "return"
                                           THEN outcome.value ELSE PyNone]
                 /\ last' = Acted("create", k, outcome)
    /\ UNCHANGED <<calc, calls>>

\* variant of get_result(): the operands are popped off self.inputs
ComputeOn_Consuming(k) ==
    /\ instances[k] # PyNone
    /\ LET at == instances[k].inputs.at
       IN  objects' = IF Len(objects[at].items) > 0
                      THEN [objects EXCEPT ![at] = PyList(Tail(objects[at].items))]
                      ELSE objects
    /\ last' = Acted("get_result", k, get_result(Deref(objects, instances[k])))
    /\ UNCHANGED <<calc, calls, instances>>

\* instances[k].get_result()
ComputeOn(k) ==
    /\ instances[k] # PyNone
    /\ last' = Acted("get_result", k, get_result(Deref(objects, instances[k])))
    /\ UNCHANGED <<calc, calls, instances, objects>>

\* instances[k].result = instances[k].get_result()
StoreOn(k) ==
    /\ instances[k] # PyNone
    /\ LET outcome == get_result(Deref(objects, instances[k]))
       IN  /\ instances' = IF outcome.kind = "return"
                           THEN [instances EXCEPT ![k].result = outcome.value]
                           ELSE instances
           /\ last' = Acted("store_result", k, outcome)
    /\ UNCHANGED <<calc, calls, objects>>

\* instances[k].inputs = form.inputs, the list the update form validated
UpdateOn(k) ==
    /\ instances[k] # PyNone
    /\ \E inputs \in InstanceLists \cup {Missing} :
          LET form == CalculationUpdate([type |-> Missing, inputs |-> inputs])
              given == form.kind = "return" /\ form.value.inputs # PyNone
          IN  /\ given => Len(objects) < MaxObjects
              /\ objects' = IF given THEN Append(objects, form.value.inputs) ELSE objects
              /\ instances' = IF given
                              THEN [instances EXCEPT ![k].inputs = Ref(Len(objects) + 1)]
                              ELSE instances
              /\ last' = Acted("update", k, form)
    /\ UNCHANGED <<calc, calls>>

InstancesNext ==
    \E k \in Holders : CreateFor(k) \/ ComputeOn(k) \/ StoreOn(k) \/ UpdateOn(k)

Instances == Init /\ [][InstancesNext]_vars


(***************************************************************************)
(* Vocabulary of the properties: the error kinds of the specification are  *)
(* the ValueError messages of the code.                                    *)
(***************************************************************************)
IsError(o, text) == o.kind = "raise" /\ o.exc = "ValueError" /\ o.text = text

IsUnsupportedType(o) == IsError(o, MsgUnsupported)

IsInvalidInputType(o) == IsError(o, MsgNotList)

IsInsufficientOperands(o) == IsError(o, MsgTooFew)

IsDivisionByZero(o) == IsError(o, MsgDivZero)

ReturnsNumber(o) == o.kind = "return" /\ o.value.t = "num"

\* the variant each tag stands for
VariantOf(tag) ==
    CASE tag = StrAddition       -> "Addition"
      [] tag = StrSubtraction    -> "Subtraction"
      [] tag = StrMultiplication -> "Multiplication"
      [] tag = StrDivision       -> "Division"

\* two characters that differ at most in case
SameLetter(c, d) ==
    \/ c = d
    \/ \E i \in 1..Len(UpperLetters) : {c, d} = {UpperLetters[i], LowerLetters[i]}

\* s is an upper/lower-case variation of t
CaseVariation(s, t) ==
    /\ Len(s.chars) = Len(t.chars)
    /\ \A i \in 1..Len(t.chars) : SameLetter(s.chars[i], t.chars[i])

IsShortList(v) == v.t = "list" /\ Len(v.items) < 2

IsOperandList(v) == v.t = "list" /\ Len(v.items) >= 2

Created == last.op = "create"

Computed == last.op = "get_result"

(***************************************************************************)
(* C1: create with one of the four tags returns an instance of the         *)
(* matching variant whose owner and inputs are the arguments given and     *)
(* whose result is None.                                                   *)
(***************************************************************************)
C1_CreateReturnsVariant ==
    (Created /\ last.calculation_type \in SupportedTags) =>
        /\ last.outcome.kind = "return"
        /\ calc = last.outcome.value
        /\ calc.cls = VariantOf(last.calculation_type)
        /\ calc.user_id = last.user_id
        /\ calc.inputs = last.inputs
        /\ calc.result = PyNone

C1_Witness ==
    /\ Created
    /\ last.calculation_type = StrSubtraction
    /\ last.inputs = IntList(<<15, 4, 2>>)
    /\ calc # PyNone
    /\ calc.cls = "Subtraction"

(***************************************************************************)
(* C2: create with a tag whose lowercase form is not one of the four       *)
(* fails with UnsupportedType, the message carries the tag as passed, and  *)
(* no instance is constructed.                                             *)
(***************************************************************************)
C2_UnknownTagRejected ==
    (Created /\ ~(\E t \in SupportedTags : CaseVariation(last.calculation_type, t))) =>
        /\ IsUnsupportedType(last.outcome)
        /\ last.outcome.arg = last.calculation_type.chars
        /\ last.outcome.value = PyNone
        /\ calc = PyNone

C2_Witness ==
    /\ Created
    /\ last.calculation_type = Upper(StrPower)
    /\ last.inputs = IntList(<<5, 2, 3>>)
    /\ IsUnsupportedType(last.outcome)

(***************************************************************************)
(* C3: create is case-insensitive in the tag: an upper/lower-case          *)
(* variation of a supported tag yields the same variant, the same          *)
(* lowercase type and the same get_result() outcome as the tag itself.     *)
(***************************************************************************)
C3_CaseInsensitive ==
    \A t \in SupportedTags :
        (Created /\ CaseVariation(last.calculation_type, t)) =>
            LET canonical == create(t, last.user_id, last.inputs)
            IN  /\ last.outcome.kind = "return"
                /\ canonical.kind = "return"
                /\ calc.cls = canonical.value.cls
                /\ calc.cls = VariantOf(t)
                /\ calc.type = t
                /\ get_result(calc) = get_result(canonical.value)

C3_Witness ==
    /\ Created
    /\ last.calculation_type = Upper(StrAddition)
    /\ last.inputs = IntList(<<1, 2>>)
    /\ calc # PyNone
    /\ calc.type = StrAddition

(***************************************************************************)
(* Reference arithmetic of the properties, in the integers: the elements   *)
(* of a list are brought to the common denominator ProdDen(xs).            *)
(***************************************************************************)
RECURSIVE ProdDen(_)
ProdDen(xs) == IF xs = <<>> THEN 1 ELSE Head(xs).d * ProdDen(Tail(xs))

RECURSIVE ProdNum(_)
ProdNum(xs) == IF xs = <<>> THEN 1 ELSE Head(xs).n * ProdNum(Tail(xs))

\* the numerators of the elements over the common denominator
Scaled(xs) == [i \in 1..Len(xs) |-> xs[i].n * (ProdDen(xs) \div xs[i].d)]

RECURSIVE TotalOf(_)
TotalOf(ys) == IF ys = <<>> THEN 0 ELSE Head(ys) + TotalOf(Tail(ys))

\* ((ys[1] - ys[2]) - ys[3]) - ...
RECURSIVE LeftDifference(_)
LeftDifference(ys) ==
    IF Len(ys) = 1
    THEN ys[1]
    ELSE LeftDifference(SubSeq(ys, 1, Len(ys) - 1)) - ys[Len(ys)]

\* r is the number num/den, in lowest terms
IsValueOf(r, num, den) ==
    /\ r.t = "num"
    /\ r.d > 0
    /\ Gcd(Abs(r.n), r.d) = 1
    /\ r.n * den = r.d * num

Number(i) == [t |-> "num", n |-> i, d |-> 1]

ComputedBy(cls) == Computed /\ calc.cls = cls /\ IsOperandList(calc.inputs)

ZeroDivisors(xs) == {i \in 2..Len(xs) : xs[i].n = 0}

(***************************************************************************)
(* C4: Addition.get_result() on a list of at least 2 numbers returns the   *)
(* sum of all its elements; [1,2,3] gives 6.                               *)
(***************************************************************************)
C4_AdditionSum ==
    ComputedBy("Addition") =>
        LET xs == calc.inputs.items
        IN  /\ last.outcome.kind = "return"
            /\ IsValueOf(last.outcome.value, TotalOf(Scaled(xs)), ProdDen(xs))
            /\ (calc.inputs = IntList(<<1, 2, 3>>) => last.outcome.value = Number(6))

C4_Witness ==
    /\ ComputedBy("Addition")
    /\ calc.inputs = IntList(<<1, 2, 3>>)
    /\ last.outcome = Return(Number(6))

(***************************************************************************)
(* C5: Subtraction.get_result() on a list of at least 2 numbers returns    *)
(* the left fold ((xs[0] - xs[1]) - xs[2]) - ... in the order given; the   *)
(* first element is the minuend; [15,4,2] gives 9.                         *)
(***************************************************************************)
C5_SubtractionLeftFold ==
    ComputedBy("Subtraction") =>
        LET xs == calc.inputs.items
        IN  /\ last.outcome.kind = "return"
            /\ IsValueOf(last.outcome.value, LeftDifference(Scaled(xs)), ProdDen(xs))
            /\ IsValueOf(last.outcome.value,
                         Scaled(xs)[1] - TotalOf(Tail(Scaled(xs))), ProdDen(xs))
            /\ (calc.inputs = IntList(<<15, 4, 2>>) => last.outcome.value = Number(9))

C5_Witness ==
    /\ ComputedBy("Subtraction")
    /\ calc.inputs = IntList(<<15, 4, 2>>)
    /\ last.outcome = Return(Number(9))

(***************************************************************************)
(* C6: Multiplication.get_result() on a list of at least 2 numbers returns *)
(* the product of all its elements; [5,2,3] gives 30; a zero element       *)
(* yields 0 and never an error.                                            *)
(***************************************************************************)
C6_MultiplicationProduct ==
    ComputedBy("Multiplication") =>
        LET xs == calc.inputs.items
        IN  /\ last.outcome.kind = "return"
            /\ IsValueOf(last.outcome.value, ProdNum(xs), ProdDen(xs))
            /\ (calc.inputs = IntList(<<5, 2, 3>>) => last.outcome.value = Number(30))
            /\ ((\E i \in 1..Len(xs) : xs[i].n = 0) => last.outcome.value = Number(0))

C6_Witness ==
    /\ ComputedBy("Multiplication")
    /\ calc.inputs = IntList(<<1, 0, 1>>)
    /\ last.outcome = Return(Number(0))

(***************************************************************************)
(* C7: Division.get_result() on a list of at least 2 numbers with no zero  *)
(* after the first returns the left fold ((xs[0] / xs[1]) / xs[2]) / ...   *)
(* in the order given; [60,3,4] gives 5; a zero first element yields 0.    *)
(***************************************************************************)
C7_DivisionLeftFold ==
    (ComputedBy("Division") /\ ZeroDivisors(calc.inputs.items) = {}) =>
        LET xs == calc.inputs.items
        IN  /\ last.outcome.kind = "return"
            /\ IsValueOf(last.outcome.value,
                         xs[1].n * ProdDen(Tail(xs)), xs[1].d * ProdNum(Tail(xs)))
            /\ (calc.inputs = IntList(<<60, 3, 4>>) => last.outcome.value = Number(5))
            /\ (xs[1].n = 0 => last.outcome.value = Number(0))

C7_Witness ==
    /\ ComputedBy("Division")
    /\ calc.inputs = IntList(<<0, 3, 4>>)
    /\ last.outcome = Return(Number(0))

(***************************************************************************)
(* C8: Division.get_result() on a list of at least 2 numbers fails with    *)
(* DivisionByZero exactly when some element after the first is zero; each  *)
(* divisor is tested before it is divided by, the computation stops at the *)
(* first zero divisor (the elements after it do not matter) and no partial *)
(* quotient is returned.                                                   *)
(***************************************************************************)
C8_DivisionByZero ==
    ComputedBy("Division") =>
        LET xs == calc.inputs.items
            zs == ZeroDivisors(xs)
        IN  /\ IsDivisionByZero(last.outcome) <=> zs # {}
            /\ last.outcome.kind = "raise" <=> zs # {}
            /\ zs # {} =>
                 LET first == CHOOSE i \in zs : \A j \in zs : i <= j
                 IN  /\ last.outcome.value = PyNone
                     /\ last.outcome =
                          get_result([calc EXCEPT !.inputs = PyList(SubSeq(xs, 1, first))])

C8_Witness ==
    /\ ComputedBy("Division")
    /\ calc.inputs = IntList(<<25, 0, 2>>)
    /\ IsDivisionByZero(last.outcome)

(***************************************************************************)
(* C9: get_result() of each of the four variants fails with                *)
(* InvalidInputType when inputs is not a list and with                     *)
(* InsufficientOperands when inputs is a list of fewer than 2 elements;    *)
(* no number is returned in either case.                                   *)
(***************************************************************************)
C9_InputShapeErrors ==
    (Computed /\ calc.cls \in {"Addition", "Subtraction", "Multiplication", "Division"}) =>
        /\ calc.inputs.t # "list" => IsInvalidInputType(last.outcome)
        /\ IsShortList(calc.inputs) => IsInsufficientOperands(last.outcome)
        /\ ~IsOperandList(calc.inputs) => ~ReturnsNumber(last.outcome)

C9_Witness ==
    /\ Computed
    /\ calc.cls = "Division"
    /\ calc.inputs = IntList(<<42>>)
    /\ IsInsufficientOperands(last.outcome)

(***************************************************************************)
(* C10 as stated: create with a supported tag itself raises                *)
(* InsufficientOperands for a list of fewer than 2 elements and            *)
(* InvalidInputType for a non-list.                                        *)
(***************************************************************************)
C10_CreateValidatesInputs ==
    (Created /\ \E t \in SupportedTags : CaseVariation(last.calculation_type, t)) =>
        /\ IsShortList(last.inputs) => IsInsufficientOperands(last.outcome)
        /\ last.inputs.t # "list" => IsInvalidInputType(last.outcome)

(***************************************************************************)
(* C10 amended: create with a supported tag does not inspect inputs: for a *)
(* list of fewer than 2 elements and for a non-list it returns the         *)
(* instance with those inputs bound; InsufficientOperands and              *)
(* InvalidInputType are raised by the later get_result() call.             *)
(***************************************************************************)
C10_ErrorsDeferredToGetResult ==
    /\ (Created /\ (\E t \in SupportedTags : CaseVariation(last.calculation_type, t))
                /\ ~IsOperandList(last.inputs)) =>
          /\ last.outcome.kind = "return"
          /\ calc = last.outcome.value
          /\ calc.inputs = last.inputs
    /\ (Computed /\ calc.cls \in {"Addition", "Subtraction", "Multiplication", "Division"}) =>
          /\ IsShortList(calc.inputs) => IsInsufficientOperands(last.outcome)
          /\ calc.inputs.t # "list" => IsInvalidInputType(last.outcome)

C10_Witness ==
    /\ Computed
    /\ calc.cls = "Addition"
    /\ calc.inputs = PyInt(42)
    /\ IsInvalidInputType(last.outcome)

(***************************************************************************)
(* C11: get_result() is deterministic and idempotent: successive calls on  *)
(* the instance returned by create, with no change of inputs in between,   *)
(* all return the same value or all raise the same error.                  *)
(***************************************************************************)
C11_GetResultIdempotent ==
    [][(Computed /\ Computed') => last'.outcome = last.outcome]_vars

C11_Witness ==
    /\ Computed
    /\ calls = 2
    /\ calc.cls = "Division"
    /\ calc.inputs = IntList(<<60, 3, 4>>)
    /\ last.outcome = Return(Number(5))

(***************************************************************************)
(* C12: Addition.get_result() is the same for every permutation of         *)
(* inputs, while Subtraction and Division depend on the order: exchanging  *)
(* the first two operands changes the outcome of Subtraction whenever they *)
(* differ and of Division whenever their squares differ (and no later      *)
(* divisor is zero); the instance holds inputs in the order given.         *)
(***************************************************************************)
Perms(n) == {p \in [1..n -> 1..n] : \A i, j \in 1..n : p[i] = p[j] => i = j}

Permuted(xs, p) == [i \in 1..Len(xs) |-> xs[p[i]]]

SwapFirstTwo(xs) ==
    [i \in 1..Len(xs) |-> IF i = 1 THEN xs[2] ELSE IF i = 2 THEN xs[1] ELSE xs[i]]

WithInputs(self, xs) == [self EXCEPT !.inputs = PyList(xs)]

Validated == last.op = "validate"

Rejected(o) == o.kind = "raise" /\ o.exc = "ValidationError"

HasLineError(o, loc, texts) ==
    /\ Rejected(o)
    /\ \E i \in 1..Len(o.arg) : o.arg[i].loc = loc /\ o.arg[i].text \in texts

RejectsInvalidType(o) == HasLineError(o, "type", {MsgTypeOneOf})

RejectsInvalidInputType(o) == HasLineError(o, "inputs", {MsgValidList})

RejectsInsufficientOperands(o) ==
    HasLineError(o, "inputs", {MsgTooShort}) \/ HasLineError(o, "", {MsgAtLeastTwo})

RejectsDivisionByZero(o) == HasLineError(o, "", {MsgNoDivZero})

\* v is a str that is a case variation of a supported tag
IsKnownTag(v) == v.t = "str" /\ \E t \in SupportedTags : CaseVariation(v, t)

\* "addition, division, multiplication, subtraction"
AllowedValuesSorted ==
    StrAddition.chars \o <<",", " ">> \o StrDivision.chars \o <<",", " ">> \o
    StrMultiplication.chars \o <<",", " ">> \o StrSubtraction.chars

(***************************************************************************)
(* C13: the gate accepts a type value exactly when it is a str whose       *)
(* lowercase form is one of the four tags; the normalised type is that     *)
(* lowercase form; any other value (not a str, unknown tag) is rejected    *)
(* with InvalidType and the message lists the four values sorted.          *)
(***************************************************************************)
C13_TypeValidation ==
    (Validated /\ last.calculation_type # Missing) =>
        LET v == last.calculation_type
            o == last.outcome
        IN  /\ IsKnownTag(v) <=> ~(Rejected(o) /\ \E i \in 1..Len(o.arg) : o.arg[i].loc = "type")
            /\ ~IsKnownTag(v) =>
                  /\ RejectsInvalidType(o)
                  /\ \A i \in 1..Len(o.arg) :
                        o.arg[i].loc = "type" => o.arg[i].arg = AllowedValuesSorted
            /\ o.kind = "return" =>
                  /\ o.value.type \in SupportedTags
                  /\ CaseVariation(v, o.value.type)

C13_Witness ==
    /\ Validated
    /\ last.calculation_type = Upper(StrDivision)
    /\ last.inputs = IntList(<<60, 3, 4>>)
    /\ last.outcome.kind = "return"
    /\ last.outcome.value.type = StrDivision

(***************************************************************************)
(* C14: the gate rejects inputs that is not a list with InvalidInputType   *)
(* and a list of fewer than 2 elements with InsufficientOperands, whatever *)
(* the type; the list test comes first, so a value that is not a list is   *)
(* never reported as too short.                                            *)
(***************************************************************************)
C14_InputsValidation ==
    (Validated /\ last.inputs # Missing) =>
        /\ last.inputs.t # "list" =>
              /\ RejectsInvalidInputType(last.outcome)
              /\ ~RejectsInsufficientOperands(last.outcome)
        /\ IsShortList(last.inputs) =>
              /\ RejectsInsufficientOperands(last.outcome)
              /\ ~RejectsInvalidInputType(last.outcome)
        /\ IsOperandList(last.inputs) =>
              /\ ~RejectsInvalidInputType(last.outcome)
              /\ ~RejectsInsufficientOperands(last.outcome)

C14_Witness ==
    /\ Validated
    /\ last.calculation_type = StrAddition
    /\ last.inputs = PyTuple(<<PyInt(1)>>)
    /\ RejectsInvalidInputType(last.outcome)

(***************************************************************************)
(* C15: the gate rejects a request with DivisionByZero exactly when its    *)
(* normalised type is division and some element of the inputs list after   *)
(* the first is zero; a zero first element for division and zeros anywhere *)
(* for the other types are accepted; a rejection constructs no instance.   *)
(***************************************************************************)
C15_GateDivisionByZero ==
    Validated =>
        LET v == last.calculation_type
            xs == last.inputs
            division == v.t = "str" /\ CaseVariation(v, StrDivision)
            zero == xs.t = "list" /\ \E i \in 2..Len(xs.items) : xs.items[i].n = 0
        IN  /\ RejectsDivisionByZero(last.outcome) <=> (division /\ zero)
            /\ (IsKnownTag(v) /\ IsOperandList(xs) /\ ~(division /\ zero)) =>
                  /\ last.outcome.kind = "return"
                  /\ last.outcome.value.inputs = xs
            /\ calc = PyNone

C15_Witness ==
    /\ Validated
    /\ last.calculation_type = StrDivision
    /\ last.inputs = IntList(<<10, 0>>)
    /\ RejectsDivisionByZero(last.outcome)

(***************************************************************************)
(* C16: the update schema accepts a payload without inputs, rejects one    *)
(* whose inputs has fewer than 2 elements and accepts every list of at     *)
(* least 2 elements, a zero after the first included, also when the        *)
(* payload names division; the validated update has no type field.         *)
(***************************************************************************)
ValidatedUpdate == last.op = "validate_update"

C16_UpdateValidation ==
    ValidatedUpdate =>
        LET o == last.outcome
        IN  /\ last.inputs = Missing => (o.kind = "return" /\ o.value.inputs = PyNone)
            /\ IsShortList(last.inputs) => RejectsInsufficientOperands(o)
            /\ IsOperandList(last.inputs) => (o.kind = "return" /\ o.value.inputs = last.inputs)
            /\ ~RejectsDivisionByZero(o)
            /\ o.kind = "return" => DOMAIN o.value = {"t", "inputs"}

C16_Witness ==
    /\ ValidatedUpdate
    /\ last.calculation_type = StrDivision
    /\ last.inputs = IntList(<<10, 0>>)
    /\ last.outcome.kind = "return"
    /\ last.outcome.value.inputs = IntList(<<10, 0>>)

(***************************************************************************)
(* C17: building the response from an instance fails whenever its result   *)
(* is None and whenever its type or inputs break the rules of the gate     *)
(* (unknown type, fewer than 2 inputs, division by a zero divisor); it     *)
(* succeeds only for a non-null result and a type and inputs the gate      *)
(* accepts.                                                                *)
(***************************************************************************)
Responded == last.op = "response"

C18_Primitives ==
    LET a == last.inputs.items[1]
        b == last.inputs.items[2]
        o == last.outcome
    IN  /\ last.op = "add" =>
              (o.kind = "return" /\ IsValueOf(o.value, a.n * b.d + b.n * a.d, a.d * b.d))
        /\ last.op = "subtract" =>
              (o.kind = "return" /\ IsValueOf(o.value, a.n * b.d - b.n * a.d, a.d * b.d))
        /\ last.op = "multiply" =>
              (o.kind = "return" /\ IsValueOf(o.value, a.n * b.n, a.d * b.d))
        /\ last.op = "divide" =>
              /\ IsDivisionByZero(o) <=> b.n = 0
              /\ o.kind = "raise" <=> b.n = 0
              /\ b.n # 0 => IsValueOf(o.value, a.n * b.d, a.d * b.n)

C18_Witness ==
    /\ last.op = "divide"
    /\ last.inputs = PyList(<<Number(0), Number(0)>>)
    /\ IsDivisionByZero(last.outcome)

(***************************************************************************)
(* C19: get_result() of each variant equals the left fold of the matching  *)
(* primitive over inputs, starting from inputs[0], and raises              *)
(* DivisionByZero exactly when that fold of divide does; for two operands  *)
(* it equals primitive(a, b).                                              *)
(***************************************************************************)
PrimitiveOf(cls) ==
    CASE cls = "Addition"       -> "add"
      [] cls = "Subtraction"    -> "subtract"
      [] cls = "Multiplication" -> "multiply"
      [] cls = "Division"       -> "divide"

RECURSIVE PrimitiveFold(_, _, _, _)
PrimitiveFold(name, xs, i, acc) ==
    IF i > Len(xs)
    THEN Return(acc)
    ELSE LET r == Primitive(name, acc, xs[i])
         IN  IF r.kind = "raise" THEN r ELSE PrimitiveFold(name, xs, i + 1, r.value)

C20_AbstractGetResult ==
    (Computed /\ calc.cls \in {"Calculation", "Dummy"}) =>
        /\ last.outcome.kind = "raise"
        /\ last.outcome.exc = "NotImplementedError"
        /\ last.outcome.value = PyNone

C20_Witness ==
    /\ Computed
    /\ calc.cls = "Calculation"
    /\ calc.inputs = IntList(<<1, 2, 3>>)
    /\ last.outcome.exc = "NotImplementedError"

(***************************************************************************)
(* The text of a value as a reader writes it down: decimal numerals, the   *)
(* items of a sequence separated by a comma and a space.                   *)
(***************************************************************************)
Represented == last.op = "repr"

Numeral(a) ==
    (IF a >= 10 THEN <<DigitChars[(a \div 10) + 1]>> ELSE <<>>) \o <<DigitChars[(a % 10) + 1]>>

\* numbers below one hundred in magnitude, whole or halves
NumberText(v) ==
    (IF v.n < 0 THEN <<"-">> ELSE <<>>)
        \o (IF v.d = 1 THEN Numeral(Abs(v.n)) ELSE Numeral(Abs(v.n) \div 2) \o <<".", "5">>)

RECURSIVE Listed(_)
Listed(items) ==
    IF items = <<>> THEN <<>>
    ELSE IF Len(items) = 1 THEN NumberText(Head(items))
    ELSE NumberText(Head(items)) \o <<",", " ">> \o Listed(Tail(items))

TextOf(v) ==
    CASE v.t = "list"     -> <<"[">> \o Listed(v.items) \o <<"]">>
      [] v.t = "tuple"    -> <<"(">> \o Listed(v.items)
                                 \o (IF Len(v.items) = 1 THEN <<",">> ELSE <<>>) \o <<")">>
      [] v.t = "num"      -> NumberText(v)
      [] v.t = "str"      -> v.chars
      [] v.t = "NoneType" -> <<"N", "o", "n", "e">>

Rendering(self) ==
    <<"C","a","l","c","u","l","a","t","i","o","n","(","t","y","p","e","=">>
        \o TextOf(self.type) \o <<",", " ", "i","n","p","u","t","s","=">>
        \o TextOf(self.inputs) \o <<")">>

\* C21 as stated: repr(calc) is the text Calculation(type=<variant_kind>,
\* inputs=<inputs>) with the instance's type and inputs substituted.
C21_ReprIsBareText ==
    Represented => last.outcome = Return(PyStr(Rendering(calc)))

\* C21 amended: repr(calc) is that text enclosed in angle brackets,
\* <Calculation(type=<variant_kind>, inputs=<inputs>)>, with the instance's
\* current type and inputs substituted as str() writes them.
C21_ReprInAngleBrackets ==
    Represented => last.outcome = Return(PyStr(<<"<">> \o Rendering(calc) \o <<">">>))

C21_Witness ==
    /\ Represented
    /\ calc.cls = "Multiplication"
    /\ calc.inputs = IntList(<<7, 8, 9>>)
    /\ last.outcome.value.chars =
          <<"<","C","a","l","c","u","l","a","t","i","o","n","(","t","y","p","e","=",
            "m","u","l","t","i","p","l","i","c","a","t","i","o","n",",", " ",
            "i","n","p","u","t","s","=","[","7",",", " ","8",",", " ","9","]",")",">">>

(***************************************************************************)
(* Invariants of the stored entity                                         *)
(***************************************************************************)
Updated == last.op = "update"

\* the update form accepted the payload and the payload carried inputs
Applied == Updated /\ last.outcome.kind = "return" /\ last.outcome.value.inputs # PyNone

HasZeroDivisor(v) == v.t = "list" /\ ZeroDivisors(v.items) # {}

\* C22 as stated: in every state reached by creating entities from requests
\* the gate accepts and applying input updates the update form accepts, no
\* division entity has a zero at index >= 1 of its inputs.
C22_NoZeroDivisorStored ==
    (calc # PyNone /\ calc.cls = "Division") => ~HasZeroDivisor(calc.inputs)

\* C23: in every state reached by creating entities from requests the gate
\* accepts and applying input updates the update form accepts (updates that
\* omit inputs included), the inputs of the entity is a list of length >= 2.
C23_AtLeastTwoInputs ==
    calc # PyNone => IsOperandList(calc.inputs)

C23_Witness ==
    /\ Updated
    /\ last.inputs = Missing
    /\ last.outcome.kind = "return"
    /\ calc.updated_at = PyDatetime(2)
    /\ calc.inputs = IntList(<<10, 0>>)

\* r is the value of the variant's rule applied to the list v of at least
\* two numbers (for division: without a zero after the first)
IsResultOf(r, cls, v) ==
    /\ IsOperandList(v)
    /\ LET xs == v.items
       IN  CASE cls = "Addition"       -> IsValueOf(r, TotalOf(Scaled(xs)), ProdDen(xs))
             [] cls = "Subtraction"    -> IsValueOf(r, LeftDifference(Scaled(xs)), ProdDen(xs))
             [] cls = "Multiplication" -> IsValueOf(r, ProdNum(xs), ProdDen(xs))
             [] cls = "Division"       ->
                    /\ ZeroDivisors(xs) = {}
                    /\ IsValueOf(r, xs[1].n * ProdDen(Tail(xs)), xs[1].d * ProdNum(Tail(xs)))
             [] OTHER                  -> FALSE

Derived(self) == self.result = PyNone \/ IsResultOf(self.result, self.cls, self.inputs)

Stored == last.op = "store_result"

\* C24 as stated: in every reachable state of an entity, a result that is
\* not null equals the rule of the variant applied to the current inputs.
C24_ResultAlwaysDerived ==
    calc # PyNone => Derived(calc)

\* C24 amended: result is null when the entity is built and changes only
\* when a computed result is stored; storing makes it the rule of the
\* variant applied to the current inputs, and it stays so for as long as
\* inputs does not change.  (An input update leaves the stored value in
\* place until a recomputed result is stored.)
C24_ResultDerivedWhenStored ==
    [][ /\ (calc = PyNone /\ calc' # PyNone) => calc'.result = PyNone
        /\ (calc # PyNone /\ calc'.result # calc.result) => Stored'
        /\ (Stored' /\ last'.outcome.kind = "return") =>
               (calc'.result # PyNone /\ Derived(calc'))
        /\ (calc # PyNone /\ Derived(calc) /\ calc'.inputs = calc.inputs) => Derived(calc')
      ]_vars

C24_Witness ==
    /\ Stored
    /\ calc.cls = "Subtraction"
    /\ calc.updated_at = PyDatetime(2)
    /\ calc.inputs = IntList(<<15, 4, 2>>)
    /\ calc.result = Number(9)

\* C25: every entity create returns has as type one of the four canonical
\* lowercase tags (never the base identity "calculation", never an unknown
\* tag), and no later step (get_result, input update, storing) changes it.
C25_VariantKindFixed ==
    [][ /\ calc' # PyNone => calc'.type \in SupportedTags
        /\ calc # PyNone => (calc'.type = calc.type /\ calc'.cls = calc.cls)
      ]_vars

C25_Witness ==
    /\ Applied
    /\ calls > 0
    /\ calc.cls = "Division"
    /\ calc.type = StrDivision
    /\ calc.inputs = IntList(<<10, 0>>)

(***************************************************************************)
(* The gate and the factory                                                *)
(***************************************************************************)
Submitted == last.op = "submit"

\* C26: for every request the gate accepts, create called with the
\* validated type and inputs returns an entity, and the get_result() call
\* that follows returns a number: none of UnsupportedType, InvalidInputType,
\* InsufficientOperands, DivisionByZero is raised.
C26_GateSufficient ==
    [][ /\ (Submitted' /\ ~Rejected(last'.outcome)) =>
               (last'.outcome.kind = "return" /\ calc' = last'.outcome.value)
        /\ (Submitted /\ last.outcome.kind = "return" /\ Computed') =>
               (ReturnsNumber(last'.outcome) /\ IsOperandList(calc.inputs))
      ]_vars

C26_Witness ==
    /\ Computed
    /\ calls = 1
    /\ calc.id = PyNone
    /\ calc.cls = "Division"
    /\ calc.inputs = IntList(<<60, 3, 4>>)
    /\ last.outcome.value = Number(5)

\* C27: whatever the steps that led to it (a create that went through no
\* gate, an update the update form accepted), a get_result() call on a
\* division entity whose inputs hold a zero after the first element raises
\* DivisionByZero: no number is returned or stored from such inputs.
C27_DefenseInDepth ==
    ((Computed \/ Stored) /\ calc.cls = "Division" /\ HasZeroDivisor(calc.inputs)) =>
        IsDivisionByZero(last.outcome)

\* the zero divisor came with an update: a result was stored before it
C27_Witness ==
    /\ Computed
    /\ calc.cls = "Division"
    /\ calc.updated_at = PyDatetime(2)
    /\ calc.result = Number(5)
    /\ calc.inputs = IntList(<<25, 0, 2>>)
    /\ IsDivisionByZero(last.outcome)

\* C28: a get_result() call, whether it returns a value or raises, leaves
\* the entity as it was: id, owner, type, inputs (items and order) and the
\* stored result are the same after the call; the value is only returned.
C28_GetResultNoEffect ==
    [][ Computed' =>
            /\ calc'.id = calc.id
            /\ calc'.user_id = calc.user_id
            /\ calc'.type = calc.type
            /\ calc'.inputs = calc.inputs
            /\ calc'.result = calc.result
            /\ calc' = calc
      ]_vars

C28_Witness ==
    /\ Computed
    /\ calc.cls = "Subtraction"
    /\ calc.id = PyUUID(1)
    /\ calc.user_id = 2
    /\ calc.inputs = IntList(<<15, 4, 2>>)
    /\ calc.result = PyNone
    /\ last.outcome.value = Number(9)

(***************************************************************************)
(* Several instances                                                       *)
(***************************************************************************)
\* what an instance is to its holder: its variant, inputs and result
View(objs, self) ==
    IF self = PyNone THEN PyNone
    ELSE [cls |-> self.cls, inputs |-> objs[self.inputs.at], result |-> self.result]

\* C29: under any interleaving of create, update and get_result on
\* different instances, a call on one instance leaves the variant, inputs
\* and result of every other instance as they were, and the outcome of
\* get_result() is decided by the instance's own variant and inputs (the
\* value of its rule, or the error of its own inputs), also when two
\* instances were created from the same list.
C29_InstancesIndependent ==
    [][ \A k \in Holders : last'.self = k =>
          /\ \A j \in Holders \ {k} :
                View(objects', instances'[j]) = View(objects, instances[j])
          /\ last'.op = "get_result" =>
                LET own == View(objects, instances[k])
                IN  /\ instances'[k] = instances[k]
                    /\ View(objects', instances'[k]) = own
                    /\ last'.outcome.kind = "return" =>
                           IsResultOf(last'.outcome.value, own.cls, own.inputs)
                    /\ last'.outcome.kind = "raise" =>
                           \/ IsShortList(own.inputs) /\ IsInsufficientOperands(last'.outcome)
                           \/ /\ own.cls = "Division"
                              /\ HasZeroDivisor(own.inputs)
                              /\ IsDivisionByZero(last'.outcome)
      ]_vars

\* two instances built from one list object; one computed after the other
\* stored its result
C29_Witness ==
    /\ instances["a"] # PyNone
    /\ instances["b"] # PyNone
    /\ instances["a"].inputs = instances["b"].inputs
    /\ instances["a"].cls = "Addition"
    /\ instances["b"].cls = "Division"
    /\ instances["b"].result = Number(2)
    /\ last = Acted("get_result", "a", Return(Number(6)))

\* the gate let the type through: no error is reported for the field type
TypeAccepted(o) == ~(Rejected(o) /\ \E i \in 1..Len(o.arg) : o.arg[i].loc = "type")

\* C30: the gate and the factory recognise the same tags: for every string
\* the gate's type validation accepts it exactly when create accepts it as
\* calculation_type, and the type the gate returns is the type of the
\* entity create builds.
C30_SameTagSet ==
    /\ (Validated /\ last.calculation_type.t = "str") =>
          LET built == create(last.calculation_type, 1, IntList(<<1, 2>>))
          IN  /\ TypeAccepted(last.outcome) <=> built.kind = "return"
              /\ last.outcome.kind = "return" =>
                     last.outcome.value.type = built.value.type
    /\ Created =>
          LET checked == validate_type(last.calculation_type)
          IN  /\ last.outcome.kind = "return" <=> checked.kind = "return"
              /\ last.outcome.kind = "return" =>
                     (checked.value = calc.type /\ EnumField(checked.value).kind = "return")

C30_Witness ==
    /\ Validated
    /\ last.calculation_type = Upper(StrMultiplication)
    /\ last.inputs = IntList(<<5, 2, 3>>)
    /\ last.outcome.kind = "return"
    /\ last.outcome.value.type = StrMultiplication

====
